---- MODULE Spec2Model ----
(***************************************************************************)
(* SROS governed self-evolution loop: the Ouroboros loop controller, the   *)
(* Sovereign Directive (policy gate) with its audit log, the Safeguards    *)
(* (safety layer) and the SimulationSandbox, modelled from the Python      *)
(* sources.  Python strings are sequences of one-character strings, so     *)
(* that substring and prefix tests are computed and not assumed.           *)
(***************************************************************************)
EXTENDS Integers, Sequences, FiniteSets, TLC

VARIABLES
    \* ---- SovereignDirective applied as a function (SpecPolicy)
    pInput,        \* the (action_type, context) the gate is called with
    pResult,       \* what evaluate_action gave for it ("pending" before the call)
    \* ---- SovereignDirective with its SovereignAuditLog (SpecDirective)
    audit_file,    \* the lines of the JSONL file, oldest first
    dCall,         \* the last evaluate_action / log_modification call and its outcome
    dRecent,       \* what get_recent_logs(1) returned right after that call
    \* ---- Safeguards (SpecSafeguards)
    sgConfig,               \* the config dict Safeguards was built from
    emergency_stop_active,  \* Safeguards.emergency_stop_active
    proposals_today,        \* Safeguards.proposals_today
    sgCheck,                \* the last check_proposal_allowed call and its result
    \* ---- SimulationSandbox (SpecSandbox)
    workspaces,      \* the temporary directories that exist on disk
    orig_telemetry,  \* the parent TelemetryCollector's events, oldest first
    orig_memory,     \* the parent MemoryRouter's memory_store (its keys)
    sbRun,           \* the last run() call and how it ended
    \* ---- OuroborosLoop (Spec)
    loop_config,               \* OuroborosLoop.config
    enabled,                   \* OuroborosLoop.enabled
    max_concurrent_proposals,  \* OuroborosLoop.max_concurrent_proposals
    require_human_approval,    \* OuroborosLoop.require_human_approval
    components,                \* the injected observer ... directive
    active_proposals,          \* OuroborosLoop.active_proposals
    proposal_history,          \* OuroborosLoop.proposal_history
    cycle,                     \* the last operation on the loop and how it ended
    objects,                   \* how many EvolutionProposal objects the lists have held
    discarded,                 \* the proposals emergency_stop() cleared from active_proposals
    flight,                    \* a run_cycle() call in progress, stage by stage (SpecInFlight)
    aSnapshot,                 \* the observations handed to Analyzer.analyze
    aResults                   \* what the successive analyze(aSnapshot) calls returned

policyVars == <<pInput, pResult>>
directiveVars == <<audit_file, dCall, dRecent>>
safeguardVars == <<sgConfig, emergency_stop_active, proposals_today, sgCheck>>
sandboxVars == <<workspaces, orig_telemetry, orig_memory, sbRun>>
loopVars ==
    <<loop_config, enabled, max_concurrent_proposals, require_human_approval,
      components, active_proposals, proposal_history, cycle, objects, discarded,
      flight>>
analyzerVars == <<aSnapshot, aResults>>
vars == <<policyVars, directiveVars, safeguardVars, sandboxVars, loopVars, analyzerVars>>

----------------------------------------------------------------------------
(* Python str operations *)

\* sub in s  (str.__contains__): sub occurs as a contiguous slice of s
StrContains(s, sub) ==
    \E i \in 0..(Len(s) - Len(sub)) : SubSeq(s, i + 1, i + Len(sub)) = sub

\* s.startswith(prefix)
StartsWith(s, prefix) ==
    Len(s) >= Len(prefix) /\ SubSeq(s, 1, Len(prefix)) = prefix

\* x in lst  (list.__contains__): some element equals x
ListContains(lst, x) == \E i \in 1..Len(lst) : lst[i] = x

RECURSIVE Concat(_)
Concat(ss) == IF ss = <<>> THEN <<>> ELSE Head(ss) \o Concat(Tail(ss))

\* A context value is a Python str or a Python list of str.
PyStr(s) == [k |-> "str", v |-> s]
PyList(l) == [k |-> "list", v |-> l]

S_empty == <<>>
S_dotdot == <<".", ".">>
S_slash == <<"/">>
S_dot == <<".">>
S_a == <<"a">>
S_governance == <<"g", "o", "v", "e", "r", "n", "a", "n", "c", "e">>
S_kernel == <<"k", "e", "r", "n", "e", "l">>
S_test == <<"t", "e", "s", "t">>
S_rm_rf == <<"r", "m", " ", "-", "r", "f">>
S_format == <<"f", "o", "r", "m", "a", "t">>
S_mkfs == <<"m", "k", "f", "s">>
S_dd == <<"d", "d">>
S_ls == <<"l", "s">>
S_add == <<"a", "d", "d">>
S_secrets == <<"s", "e", "c", "r", "e", "t", "s">>
S_production_data ==
    <<"p", "r", "o", "d", "u", "c", "t", "i", "o", "n", "_", "d", "a", "t", "a">>
S_dotenv == <<".", "e", "n", "v">>
S_credentials == <<"c", "r", "e", "d", "e", "n", "t", "i", "a", "l", "s">>
S_Secrets == <<"S", "e", "c", "r", "e", "t", "s">>
F_a_py == <<"a", ".", "p", "y">>
F_secrets_yml == S_secrets \o <<".", "y", "m", "l">>
F_ENV == <<".", "E", "N", "V">>

UpperCase ==
    <<"A", "B", "C", "D", "E", "F", "G", "H", "I", "J", "K", "L", "M",
      "N", "O", "P", "Q", "R", "S", "T", "U", "V", "W", "X", "Y", "Z">>
LowerCase ==
    <<"a", "b", "c", "d", "e", "f", "g", "h", "i", "j", "k", "l", "m",
      "n", "o", "p", "q", "r", "s", "t", "u", "v", "w", "x", "y", "z">>

\* s.lower()
Lower(s) ==
    [i \in 1..Len(s) |->
        IF \E j \in 1..26 : UpperCase[j] = s[i]
        THEN LowerCase[CHOOSE j \in 1..26 : UpperCase[j] = s[i]]
        ELSE s[i]]

----------------------------------------------------------------------------
(* sros/governance/sovereign_directive.py *)

ActionType ==
    {"READ", "THINK", "MODIFY_CODE", "DELETE_FILE", "EXECUTE_COMMAND",
     "EXTERNAL_CALL", "EVOLVE_STRUCTURE"}

RiskLevel == {"LOW", "MEDIUM", "HIGH", "CRITICAL"}

DirectiveDecision(allowed, approval, risk, reason) ==
    [allowed |-> allowed, requires_hassan_approval |-> approval,
     risk |-> risk, reason |-> reason]

\* The value of a call: a returned decision, or the exception it raised.
\* (NoDecision fills the decision field when nothing was returned.)
NoDecision == DirectiveDecision(FALSE, FALSE, "none", "")
Returned(d) == [exc |-> "none", decision |-> d]
Raised(e) == [exc |-> e, decision |-> NoDecision]
Pending == [exc |-> "pending", decision |-> NoDecision]

\* _is_forbidden_scope evaluates  ".." in target or target.startswith("/") .
\* On a list the first test is element membership, and the second, reached
\* when the first is false, raises AttributeError (a list has no startswith).
is_forbidden_scope_raises(context) ==
    /\ context.target.k = "list"
    /\ ~ListContains(context.target.v, S_dotdot)

\* (mutant: the ".." test dropped)
is_forbidden_scope_no_dotdot(context) ==
    context.target.k = "str" /\ StartsWith(context.target.v, S_slash)

_is_forbidden_scope(context) ==
    IF context.target.k = "list"
    THEN ListContains(context.target.v, S_dotdot)
    ELSE StrContains(context.target.v, S_dotdot)
         \/ StartsWith(context.target.v, S_slash)

\* "governance" in target_file or "kernel" in target_file
TargetsCore(target) ==
    IF target.k = "list"
    THEN ListContains(target.v, S_governance) \/ ListContains(target.v, S_kernel)
    ELSE StrContains(target.v, S_governance) \/ StrContains(target.v, S_kernel)

\* (mutant: only "governance" is treated as core)
evaluate_modification_governance_only(context) ==
    IF context.target.k = "str" /\ StrContains(context.target.v, S_governance)
    THEN DirectiveDecision(TRUE, TRUE, "HIGH",
                           "Modification to core system files (Law SAFE.2)")
    ELSE DirectiveDecision(TRUE, FALSE, "MEDIUM", "Standard code modification")

_evaluate_modification(context) ==
    IF TargetsCore(context.target)
    THEN DirectiveDecision(TRUE, TRUE, "HIGH",
                           "Modification to core system files (Law SAFE.2)")
    ELSE DirectiveDecision(TRUE, FALSE, "MEDIUM", "Standard code modification")

risky == {S_rm_rf, S_format, S_mkfs, S_dd}

_is_high_risk_command(cmd) == \E r \in risky : StrContains(cmd, r)

ModificationActions == {"MODIFY_CODE", "DELETE_FILE", "EVOLVE_STRUCTURE"}

\* (mutant: the high-risk command rule applied to every action type)
apply_laws_risky_command_any_action(action_type, context) ==
    IF is_forbidden_scope_raises(context) THEN Raised("AttributeError")
    ELSE IF _is_forbidden_scope(context)
    THEN Returned(DirectiveDecision(FALSE, FALSE, "CRITICAL",
                      "Action targets forbidden domain (Law SCOPE.2)"))
    ELSE IF action_type \in ModificationActions
    THEN Returned(_evaluate_modification(context))
    ELSE IF _is_high_risk_command(context.command)
    THEN Returned(DirectiveDecision(TRUE, TRUE, "HIGH",
                      "High risk command execution (Law AUTH.2)"))
    ELSE Returned(DirectiveDecision(TRUE, FALSE, "LOW",
                      "Standard operation within allowed scope"))

_apply_laws(action_type, context) ==
    IF is_forbidden_scope_raises(context) THEN Raised("AttributeError")
    ELSE IF _is_forbidden_scope(context)
    THEN Returned(DirectiveDecision(FALSE, FALSE, "CRITICAL",
                      "Action targets forbidden domain (Law SCOPE.2)"))
    ELSE IF action_type \in ModificationActions
    THEN Returned(_evaluate_modification(context))
    ELSE IF action_type = "EXECUTE_COMMAND" /\ _is_high_risk_command(context.command)
    THEN Returned(DirectiveDecision(TRUE, TRUE, "HIGH",
                      "High risk command execution (Law AUTH.2)"))
    ELSE Returned(DirectiveDecision(TRUE, FALSE, "LOW",
                      "Standard operation within allowed scope"))

----------------------------------------------------------------------------
(* sros/governance/sovereign_audit_log.py *)

\* json.dumps(entry): a dict of str, bool, list and dict values encodes to one
\* line; any other value (here the context's "extra" being an arbitrary
\* object) makes it raise TypeError.
json_dumps_raises(entry) ==
    entry.type = "DECISION" /\ entry.context.extra = "object"

\* json.dumps / json.loads of a value: a str stays a str, a list stays a
\* list, and a tuple is written as a JSON array, which is read back as a list.
json_value(x) == IF x.k = "tuple" THEN [k |-> "list", v |-> x.v] ELSE x

json_dumps(entry) ==
    IF entry.type = "DECISION"
    THEN [json |-> [entry EXCEPT !.context.target = json_value(@)]]
    ELSE [json |-> entry]

json_loads(line) == line.json

\* log_decision builds this entry (the timestamp is left out of the model).
log_decision_entry(decision, context) ==
    [type |-> "DECISION",
     decision |-> [allowed |-> decision.allowed,
                   requires_approval |-> decision.requires_hassan_approval,
                   risk |-> decision.risk,
                   reason |-> decision.reason],
     context |-> context]

log_modification_entry(details) ==
    [type |-> "MODIFICATION", details |-> details]

\* (mutant: the line is written twice)
append_entry_twice(file, entry, ioOk) ==
    IF ioOk /\ ~json_dumps_raises(entry)
    THEN Append(Append(file, json_dumps(entry)), json_dumps(entry))
    ELSE file

\* _append_entry: open(..., "a") and write one line; any exception (the open
\* or write failing, json.dumps raising) is caught and only logged.
_append_entry(file, entry, ioOk) ==
    IF ioOk /\ ~json_dumps_raises(entry)
    THEN Append(file, json_dumps(entry))
    ELSE file

\* lines[start:] with Python's index normalisation
PySliceFrom(lines, start) ==
    LET n == Len(lines)
        from == IF start < 0
                THEN (IF n + start < 0 THEN 0 ELSE n + start)
                ELSE (IF start > n THEN n ELSE start)
    IN SubSeq(lines, from + 1, n)

Reversed(s) == [i \in 1..Len(s) |-> s[Len(s) + 1 - i]]

\* get_recent_logs: reversed(lines[-limit:]), each line parsed
get_recent_logs(file, limit) ==
    LET picked == Reversed(PySliceFrom(file, 0 - limit))
    IN [i \in 1..Len(picked) |-> json_loads(picked[i])]

\* evaluate_action logs the decision under {"action": action_type.value, **context}
LoggedContext(action_type, context) ==
    [action |-> action_type, target |-> context.target,
     command |-> context.command, extra |-> context.extra]

----------------------------------------------------------------------------
(* sros/evolution/safeguards.py *)

DefaultForbiddenTargets == <<S_secrets, S_production_data, S_dotenv, S_credentials>>

\* The f-string reasons, kept as their text and the values formatted into it.
SgReason(text, a, b, target) == [text |-> text, a |-> a, b |-> b, target |-> target]

\* for target in target_files: if any(forbidden in target.lower() ...): the
\* first such target, in list order
FirstForbidden(target_files, forbidden_targets) ==
    LET hits == {i \in 1..Len(target_files) :
                    \E j \in 1..Len(forbidden_targets) :
                        StrContains(Lower(target_files[i]), forbidden_targets[j])}
    IN IF hits = {} THEN 0 ELSE CHOOSE i \in hits : \A k \in hits : i <= k

\* (mutant: the file count is taken over the distinct target files)
check_proposal_allowed_distinct_files(cfg, stop, today, target_files) ==
    LET n == Cardinality({target_files[i] : i \in 1..Len(target_files)}) IN
    IF stop
    THEN [allowed |-> FALSE, reason |-> SgReason("Emergency stop is active", 0, 0, <<>>)]
    ELSE IF today >= cfg.max_proposals_per_day
    THEN [allowed |-> FALSE,
          reason |-> SgReason("Daily proposal limit reached",
                              cfg.max_proposals_per_day, 0, <<>>)]
    ELSE IF n > cfg.max_files_per_proposal
    THEN [allowed |-> FALSE,
          reason |-> SgReason("Too many files", n, cfg.max_files_per_proposal, <<>>)]
    ELSE IF FirstForbidden(target_files, cfg.forbidden_targets) # 0
    THEN [allowed |-> FALSE,
          reason |-> SgReason("Forbidden target", 0, 0,
                        target_files[FirstForbidden(target_files, cfg.forbidden_targets)])]
    ELSE [allowed |-> TRUE, reason |-> SgReason("OK", 0, 0, <<>>)]

check_proposal_allowed(cfg, stop, today, target_files) ==
    IF stop
    THEN [allowed |-> FALSE, reason |-> SgReason("Emergency stop is active", 0, 0, <<>>)]
    ELSE IF today >= cfg.max_proposals_per_day
    THEN [allowed |-> FALSE,
          reason |-> SgReason("Daily proposal limit reached",
                              cfg.max_proposals_per_day, 0, <<>>)]
    ELSE IF Len(target_files) > cfg.max_files_per_proposal
    THEN [allowed |-> FALSE,
          reason |-> SgReason("Too many files", Len(target_files),
                              cfg.max_files_per_proposal, <<>>)]
    ELSE IF FirstForbidden(target_files, cfg.forbidden_targets) # 0
    THEN [allowed |-> FALSE,
          reason |-> SgReason("Forbidden target", 0, 0,
                        target_files[FirstForbidden(target_files, cfg.forbidden_targets)])]
    ELSE [allowed |-> TRUE, reason |-> SgReason("OK", 0, 0, <<>>)]

----------------------------------------------------------------------------
(* Bounds and input domains *)

MaxFiles == 4       \* target_files of a checked proposal has at most this many
MaxPerDay == 2      \* the configured max_proposals_per_day

SgFiles == {F_a_py, F_secrets_yml, F_ENV}

SgTargetFiles == UNION {[1..n -> SgFiles] : n \in 0..MaxFiles}

SgConfigs ==
    [max_proposals_per_day : {MaxPerDay},
     max_files_per_proposal : {1, MaxFiles - 1},
     forbidden_targets : {DefaultForbiddenTargets, <<S_Secrets>>}]

NoCheck ==
    [called |-> FALSE, target_files |-> <<>>,
     result |-> [allowed |-> FALSE, reason |-> SgReason("", 0, 0, <<>>)]]

MaxPieces == 2      \* a path is made of at most this many pieces
MaxLog == 3         \* audit file lines in SpecDirective

Pieces == {S_slash, S_dotdot, S_dot, S_a, S_kernel, S_governance}

Paths == {Concat(ps) : ps \in UNION {[1..n -> Pieces] : n \in 0..MaxPieces}}

Commands == {S_empty, S_ls, S_dd, S_add, S_rm_rf, S_format \o S_a, S_mkfs}

ListTargets ==
    {<<>>, <<S_a>>, <<S_dotdot>>, <<S_slash \o S_a>>, <<S_kernel>>,
     <<S_a, S_dotdot>>, <<S_dotdot \o S_slash \o S_a>>}

Context(target, command, extra) ==
    [target |-> target, command |-> command, extra |-> extra]

PolicyInputs ==
    {[action_type |-> a, context |-> Context(PyStr(t), c, "absent")] :
        a \in ActionType, t \in Paths, c \in Commands}
    \cup
    {[action_type |-> a, context |-> Context(PyList(l), S_empty, "absent")] :
        a \in ActionType, l \in ListTargets}

AuditActions == {"READ", "MODIFY_CODE", "EXECUTE_COMMAND"}

AuditContexts ==
    {Context(PyStr(S_test), S_empty, "absent"),
     Context(PyStr(S_test), S_empty, "object"),
     Context(PyStr(S_slash \o S_a), S_empty, "absent"),
     Context(PyStr(S_kernel), S_rm_rf, "absent"),
     Context(PyList(<<S_a>>), S_empty, "absent")}

ModificationDetails == {"patch"}

NoCall ==
    [op |-> "none", action_type |-> "none",
     context |-> Context(PyStr(S_empty), S_empty, "absent"),
     ioOk |-> TRUE, result |-> Pending, preFile |-> <<>>, limit |-> 0]

----------------------------------------------------------------------------
(* SovereignDirective.evaluate_action as a function of its arguments *)

IdlePolicy ==
    /\ pInput = [action_type |-> "READ",
                 context |-> Context(PyStr(S_empty), S_empty, "absent")]
    /\ pResult = Pending

\* evaluate_action returns what _apply_laws returned (or raises what it raised)
PolicyEvaluate ==
    /\ pResult = Pending
    /\ pResult' = _apply_laws(pInput.action_type, pInput.context)
    /\ UNCHANGED <<pInput, directiveVars, safeguardVars, sandboxVars, loopVars, analyzerVars>>

----------------------------------------------------------------------------
(* SovereignDirective with its SovereignAuditLog *)

IdleDirective == audit_file = <<>> /\ dCall = NoCall /\ dRecent = <<>>

\* (mutant: a failed audit write is raised to the caller)
evaluate_action_write_failure_raises(file, action_type, context, ioOk) ==
    LET result == _apply_laws(action_type, context)
        entry == log_decision_entry(result.decision,
                                    LoggedContext(action_type, context))
    IN [result |-> IF result.exc = "none" /\ ~ioOk THEN Raised("OSError") ELSE result,
        file |-> IF result.exc = "none"
                 THEN _append_entry(file, entry, ioOk)
                 ELSE file]

\* evaluate_action: _apply_laws, then audit_log.log_decision, then return.
\* An exception of _apply_laws leaves before the decision is logged.
evaluate_action(file, action_type, context, ioOk) ==
    LET result == _apply_laws(action_type, context)
        entry == log_decision_entry(result.decision,
                                    LoggedContext(action_type, context))
    IN [result |-> result,
        file |-> IF result.exc = "none"
                 THEN _append_entry(file, entry, ioOk)
                 ELSE file]

EvaluateAction ==
    \E a \in AuditActions, c \in AuditContexts, ioOk \in BOOLEAN :
        LET out == evaluate_action(audit_file, a, c, ioOk) IN
        /\ Len(audit_file) < MaxLog
        /\ audit_file' = out.file
        /\ dCall' = [op |-> "evaluate_action", action_type |-> a, context |-> c,
                     ioOk |-> ioOk, result |-> out.result, preFile |-> audit_file,
                     limit |-> 0]
        /\ dRecent' = get_recent_logs(out.file, 1)
        /\ UNCHANGED <<policyVars, safeguardVars, sandboxVars, loopVars, analyzerVars>>

LogModification ==
    \E d \in ModificationDetails, ioOk \in BOOLEAN :
        /\ Len(audit_file) < MaxLog
        /\ audit_file' = _append_entry(audit_file, log_modification_entry(d), ioOk)
        /\ dCall' = [NoCall EXCEPT !.op = "log_modification", !.ioOk = ioOk,
                                    !.preFile = audit_file]
        /\ dRecent' = get_recent_logs(audit_file', 1)
        /\ UNCHANGED <<policyVars, safeguardVars, sandboxVars, loopVars, analyzerVars>>

\* audit_log.get_recent_logs(limit), limit >= 0
GetRecentLogs ==
    \E limit \in 0..(MaxLog + 1) :
        /\ dRecent' = get_recent_logs(audit_file, limit)
        /\ dCall' = [NoCall EXCEPT !.op = "get_recent_logs", !.limit = limit,
                                    !.preFile = audit_file]
        /\ UNCHANGED <<audit_file, policyVars, safeguardVars, sandboxVars, loopVars,
                       analyzerVars>>

----------------------------------------------------------------------------
(* Safeguards *)

IdleSafeguards ==
    /\ sgConfig = [max_proposals_per_day |-> MaxPerDay,
                   max_files_per_proposal |-> 1,
                   forbidden_targets |-> DefaultForbiddenTargets]
    /\ emergency_stop_active = FALSE
    /\ proposals_today = 0
    /\ sgCheck = NoCheck

CheckProposalAllowed ==
    \E tf \in SgTargetFiles :
        /\ sgCheck' = [called |-> TRUE, target_files |-> tf,
                       result |-> check_proposal_allowed(sgConfig, emergency_stop_active,
                                                         proposals_today, tf)]
        /\ UNCHANGED <<sgConfig, emergency_stop_active, proposals_today,
                       policyVars, directiveVars, sandboxVars, loopVars, analyzerVars>>

activate_emergency_stop ==
    /\ emergency_stop_active' = TRUE
    /\ sgCheck' = NoCheck
    /\ UNCHANGED <<sgConfig, proposals_today, policyVars, directiveVars, sandboxVars, loopVars, analyzerVars>>

deactivate_emergency_stop ==
    /\ emergency_stop_active' = FALSE
    /\ sgCheck' = NoCheck
    /\ UNCHANGED <<sgConfig, proposals_today, policyVars, directiveVars, sandboxVars, loopVars, analyzerVars>>

increment_proposal_count ==
    /\ proposals_today < MaxPerDay
    /\ proposals_today' = proposals_today + 1
    /\ sgCheck' = NoCheck
    /\ UNCHANGED <<sgConfig, emergency_stop_active, policyVars, directiveVars, sandboxVars, loopVars, analyzerVars>>

reset_daily_counters ==
    /\ proposals_today' = 0
    /\ sgCheck' = NoCheck
    /\ UNCHANGED <<sgConfig, emergency_stop_active, policyVars, directiveVars, sandboxVars, loopVars, analyzerVars>>

----------------------------------------------------------------------------
(* sros/runtime/simulations/sandbox.py *)

MaxEvents == 2        \* events a proposal callable records in one run
MaxParentEvents == 2  \* events the parent collector holds from outside the sandbox

\* The methods the two collaborating classes define.
TelemetryCollectorMethods ==
    {"record_metric", "record_event", "get_metrics", "get_events", "get_summary"}

MemoryRouterMethods ==
    {"initialize_layers", "read", "write", "semantic_search", "get_stats"}

MemoryKeys == {"k1", "k2"}

\* What a proposal callable does with the memory and telemetry it is given.
Callables ==
    [events : 0..MaxEvents,      \* telemetry.record_event calls
     writes : SUBSET MemoryKeys, \* memory.write(..., key=k) calls
     raises : BOOLEAN]           \* ends by raising ValueError instead of returning

NoRun ==
    [called |-> FALSE, callable |-> [events |-> 0, writes |-> {}, raises |-> FALSE],
     temp_dir |-> 0, outcome |-> "none", pre_telemetry |-> <<>>, pre_memory |-> {}]

IdleSandbox ==
    /\ workspaces = {}
    /\ orig_telemetry = <<>>
    /\ orig_memory = {}
    /\ sbRun = NoRun

\* tempfile.mkdtemp: a directory that did not exist
mkdtemp(dirs) == CHOOSE d \in 1..(Cardinality(dirs) + 1) : d \notin dirs

\* __enter__: the memory view handed to the callable is a clone only if the
\* router has a clone method; otherwise it is the parent router itself.
SandboxMemoryIsClone == "clone" \in MemoryRouterMethods

\* TelemetryCollector.record_event appends one event
record_event(events, e) == Append(events, e)

RECURSIVE RecordEvents(_, _)
RecordEvents(events, n) ==
    IF n = 0 THEN events ELSE record_event(RecordEvents(events, n - 1), n)

\* __exit__ after the workspace is removed: for every event of the sandbox
\* collector, self._orig_telemetry.record(event).  The outcome is the parent's
\* events and the exception this raises ("none" when it does not).
merge_telemetry(parent_events, sandbox_events) ==
    IF sandbox_events = <<>>
    THEN [events |-> parent_events, exc |-> "none"]
    ELSE IF "record" \in TelemetryCollectorMethods
    THEN [events |-> parent_events \o sandbox_events, exc |-> "none"]
    ELSE [events |-> parent_events, exc |-> "AttributeError"]

\* run(): with self: try: return proposal(memory, telemetry) except: raise.
\* An exception raised by __exit__ replaces the one being propagated, and
\* replaces the return value of a callable that returned.
run(dirs, parent_events, parent_memory, callable) ==
    LET temp_dir == mkdtemp(dirs)
        entered == dirs \cup {temp_dir}
        sandbox_events == RecordEvents(<<>>, callable.events)
        memory_after == IF SandboxMemoryIsClone
                        THEN parent_memory
                        ELSE parent_memory \cup callable.writes
        removed == entered \ {temp_dir}
        merged == merge_telemetry(parent_events, sandbox_events)
    IN [temp_dir |-> temp_dir,
        dirs |-> removed,
        events |-> merged.events,
        memory |-> memory_after,
        outcome |-> IF merged.exc # "none" THEN merged.exc
                    ELSE IF callable.raises THEN "ValueError"
                    ELSE "returned"]

Run ==
    \E c \in Callables :
        LET out == run(workspaces, orig_telemetry, orig_memory, c) IN
        /\ workspaces' = out.dirs
        /\ orig_telemetry' = out.events
        /\ orig_memory' = out.memory
        /\ sbRun' = [called |-> TRUE, callable |-> c, temp_dir |-> out.temp_dir,
                     outcome |-> out.outcome, pre_telemetry |-> orig_telemetry,
                     pre_memory |-> orig_memory]
        /\ UNCHANGED <<policyVars, directiveVars, safeguardVars, loopVars, analyzerVars>>

\* The parent program records an event in its own collector.
ParentRecordEvent ==
    /\ Len(orig_telemetry) < MaxParentEvents
    /\ orig_telemetry' = record_event(orig_telemetry, 0)
    /\ sbRun' = NoRun
    /\ UNCHANGED <<workspaces, orig_memory, policyVars, directiveVars, safeguardVars, loopVars, analyzerVars>>

----------------------------------------------------------------------------
(* sros/evolution/analyzer.py *)

S_cache == "cache"
S_critical == <<"c", "r", "i", "t", "i", "c", "a", "l">>
S_high == <<"h", "i", "g", "h">>
S_HIGH == <<"H", "I", "G", "H">>
S_medium == <<"m", "e", "d", "i", "u", "m">>
S_low == <<"l", "o", "w">>
S_urgent == <<"u", "r", "g", "e", "n", "t">>

\* mapping.get(severity.lower(), 5)
_severity_to_priority(severity) ==
    LET s == Lower(severity) IN
    CASE s = S_critical -> 10
      [] s = S_high -> 8
      [] s = S_medium -> 5
      [] s = S_low -> 3
      [] OTHER -> 5

\* mapping.get(priority.lower(), 5): the same table
_priority_to_score(priority) ==
    LET s == Lower(priority) IN
    CASE s = S_critical -> 10
      [] s = S_high -> 8
      [] s = S_medium -> 5
      [] s = S_low -> 3
      [] OTHER -> 5

\* A description: the text, and the number an f-string formats into it
Desc(text, n) == [text |-> text, n |-> n]

\* A pain point dict; a key the dict does not have is "none", 0 or <<>>
PainPoint(type, priority, component, count, details, source, description) ==
    [type |-> type, priority |-> priority, component |-> component,
     count |-> count, details |-> details, source |-> source,
     description |-> description]

\* The snapshot a missing observer stands for: {} , every .get() a default
EmptySnapshot ==
    [drift_signals |-> <<>>, code_todos |-> <<>>, error_rate |-> 0,
     manual_feedback |-> <<>>]

SelectSeq5(s) == SubSeq(s, 1, IF Len(s) < 5 THEN Len(s) ELSE 5)

\* (mutant: a sort that puts a later pain point before an earlier one of
\* the same priority)
RECURSIVE InsertBeforeEqual(_, _)
InsertBeforeEqual(sorted, x) ==
    IF sorted = <<>> THEN <<x>>
    ELSE IF Head(sorted).priority > x.priority
    THEN <<Head(sorted)>> \o InsertBeforeEqual(Tail(sorted), x)
    ELSE <<x>> \o sorted

\* list.sort(key=priority, reverse=True): stable, equal priorities keep order
RECURSIVE InsertByPriority(_, _)
InsertByPriority(sorted, x) ==
    IF sorted = <<>> THEN <<x>>
    ELSE IF Head(sorted).priority >= x.priority
    THEN <<Head(sorted)>> \o InsertByPriority(Tail(sorted), x)
    ELSE <<x>> \o sorted

RECURSIVE SortByPriority(_)
SortByPriority(s) ==
    IF s = <<>> THEN <<>>
    ELSE InsertByPriority(SortByPriority(SubSeq(s, 1, Len(s) - 1)), s[Len(s)])

\* Analyzer.analyze up to the sort: the pain points in the order appended.
\* error_rate is in thousandths (0.05 is 50).
collect_pain_points(observations) ==
    LET drift == [i \in 1..Len(observations.drift_signals) |->
                    PainPoint("drift",
                              _severity_to_priority(observations.drift_signals[i].severity),
                              observations.drift_signals[i].component, 0, <<>>,
                              "mirroros_drift",
                              Desc(observations.drift_signals[i].description, 0))]
        todos == observations.code_todos
        bugs == SelectSeq(todos, LAMBDA t : t.type = "bug")
        debt == SelectSeq(todos, LAMBDA t : t.type = "technical_debt")
        bugPoint == IF bugs # <<>>
                    THEN <<PainPoint("bugs", 8, "none", Len(bugs), SelectSeq5(bugs),
                                     "code_scan",
                                     Desc("{} FIXME/BUG comments in codebase", Len(bugs)))>>
                    ELSE <<>>
        debtPoint == IF debt # <<>>
                     THEN <<PainPoint("technical_debt", 5, "none", Len(debt),
                                      SelectSeq5(debt), "code_scan",
                                      Desc("{} HACK/WORKAROUND comments in codebase",
                                           Len(debt)))>>
                     ELSE <<>>
        reliability == IF observations.error_rate > 50
                       THEN <<PainPoint("reliability", 9, "none", 0, <<>>, "telemetry",
                                        Desc("Error rate at {}", observations.error_rate))>>
                       ELSE <<>>
        feedback == [i \in 1..Len(observations.manual_feedback) |->
                        PainPoint("user_feedback",
                                  _priority_to_score(observations.manual_feedback[i].priority),
                                  "none", 0, <<>>, "manual",
                                  Desc(observations.manual_feedback[i].description, 0))]
    IN drift \o bugPoint \o debtPoint \o reliability \o feedback

\* Analyzer.analyze
analyze(observations) == SortByPriority(collect_pain_points(observations))

----------------------------------------------------------------------------
(* Analyzer.analyze as a function of the observations *)

MaxSignals == 2        \* drift signals in a snapshot
MaxTodos == 2          \* code TODOs in a snapshot
MaxFeedback == 2       \* manual feedback items in a snapshot
MaxAnalyzeCalls == 2   \* analyze() calls on one snapshot

DriftSignals ==
    {[severity |-> S_critical, component |-> S_cache, description |-> "d1"],
     [severity |-> S_HIGH, component |-> "db", description |-> "d2"],
     [severity |-> S_high, component |-> S_cache, description |-> "d3"]}

CodeTodos ==
    {[type |-> "bug", file |-> F_a_py], [type |-> "technical_debt", file |-> F_a_py]}

ErrorRates == {0, 50, 60}

ManualFeedback ==
    {[priority |-> S_medium, description |-> "f1"],
     [priority |-> S_urgent, description |-> "f2"]}

SeqsUpTo(S, n) == UNION {[1..k -> S] : k \in 0..n}

AnalyzerSnapshots ==
    [drift_signals : SeqsUpTo(DriftSignals, MaxSignals),
     code_todos : SeqsUpTo(CodeTodos, MaxTodos),
     error_rate : ErrorRates,
     manual_feedback : SeqsUpTo(ManualFeedback, MaxFeedback)]

IdleAnalyzer == aSnapshot = EmptySnapshot /\ aResults = <<>>

\* analyzer.analyze(aSnapshot), once more
Analyze ==
    /\ Len(aResults) < MaxAnalyzeCalls
    /\ aResults' = Append(aResults, analyze(aSnapshot))
    /\ UNCHANGED <<aSnapshot, policyVars, directiveVars, safeguardVars, sandboxVars,
                   loopVars>>

----------------------------------------------------------------------------
(* sros/evolution/ouroboros.py: EvolutionProposal, and sros/evolution/proposer.py *)

\* The fields of the EvolutionProposal dataclass: the keywords its generated
\* __init__ accepts.
EvolutionProposalFields ==
    {"id", "title", "description", "rationale", "stage", "target_files",
     "target_modules"}

\* The keywords each Proposer template passes to EvolutionProposal(...)
ProposerKeywords(pain_type) ==
    {"id", "title", "description", "rationale", "stage", "created_at",
     "updated_at", "metadata"}
    \cup (IF pain_type \in {"bugs", "technical_debt"} THEN {"target_files"} ELSE {})
    \cup (IF pain_type = "drift" THEN {"target_modules"} ELSE {})

\* EvolutionProposal(**kwargs) raises TypeError on a keyword that is no field
EvolutionProposal_raises(keywords) == ~(keywords \subseteq EvolutionProposalFields)

Title(template, component, count) ==
    [template |-> template, component |-> component, count |-> count]

\* A proposal object.  oid is the identity of the Python object; the
\* attributes after target_modules are not dataclass fields, they exist once
\* the loop has assigned them (FALSE / "unset" before).
EvolutionProposal(oid, title, target_files, target_modules) ==
    [oid |-> oid, id |-> oid, title |-> title, stage |-> "propose",
     target_files |-> target_files, target_modules |-> target_modules,
     requires_approval |-> FALSE, approved |-> FALSE,
     simulation_results |-> "unset"]

\* list(set(d["file"] for d in details if "file" in d)): the distinct files,
\* here in order of first occurrence
RECURSIVE DistinctFiles(_)
DistinctFiles(details) ==
    IF details = <<>> THEN <<>>
    ELSE LET rest == DistinctFiles(SubSeq(details, 1, Len(details) - 1))
             f == details[Len(details)].file
         IN IF \E i \in 1..Len(rest) : rest[i] = f THEN rest ELSE Append(rest, f)

\* Proposer._create_proposal: the template chosen by the pain point's type
_create_proposal(oid, pain_point) ==
    CASE pain_point.type = "bugs" ->
            EvolutionProposal(oid, Title("Fix {} bugs identified in code scan", "none",
                                         pain_point.count),
                              DistinctFiles(pain_point.details), <<>>)
      [] pain_point.type = "technical_debt" ->
            EvolutionProposal(oid, Title("Refactor {} technical debt items", "none",
                                         pain_point.count),
                              DistinctFiles(pain_point.details), <<>>)
      [] pain_point.type = "drift" ->
            EvolutionProposal(oid, Title("Optimize {} performance",
                                         pain_point.component, 0),
                              <<>>, <<pain_point.component>>)
      [] pain_point.type = "user_feedback" ->
            EvolutionProposal(oid, Title("User-requested enhancement", "none", 0),
                              <<>>, <<>>)
      [] OTHER ->
            EvolutionProposal(oid, Title("System improvement", "none", 0), <<>>, <<>>)

max_proposals_per_cycle == 3

\* Proposer.generate_proposals: one proposal per pain point of the first
\* max_proposals_per_cycle; the first EvolutionProposal(...) that raises ends it.
generate_proposals(pain_points, firstOid) ==
    LET top == SubSeq(pain_points, 1,
                      IF Len(pain_points) < max_proposals_per_cycle
                      THEN Len(pain_points) ELSE max_proposals_per_cycle)
    IN IF \E i \in 1..Len(top) : EvolutionProposal_raises(ProposerKeywords(top[i].type))
       THEN [exc |-> "TypeError", proposals |-> <<>>]
       ELSE [exc |-> "none",
             proposals |-> [i \in 1..Len(top) |-> _create_proposal(firstOid + i - 1, top[i])]]

----------------------------------------------------------------------------
(* sros/evolution/ouroboros.py: OuroborosLoop *)

MaxConcurrent == 2   \* the configured max_concurrent
MaxHistory == 3      \* run_cycle is not called with a longer proposal_history
MaxObjects == 3      \* proposals the owner of the loop appends to active_proposals

\* The names bound in the module's namespace: its imports and definitions.
OuroborosModuleNames ==
    {"dataclass", "field", "List", "Dict", "Any", "Optional", "Enum", "logging",
     "logger", "LoopStage", "EvolutionProposal", "OuroborosLoop"}

\* The loop object, as the methods see it.
Loop ==
    [config |-> loop_config, enabled |-> enabled,
     max_concurrent_proposals |-> max_concurrent_proposals,
     require_human_approval |-> require_human_approval,
     components |-> components,
     active_proposals |-> active_proposals,
     proposal_history |-> proposal_history,
     objects |-> objects]

\* dataclass __eq__: the declared fields, compared as a tuple
EqProposal(p, q) ==
    /\ p.id = q.id
    /\ p.title = q.title
    /\ p.stage = q.stage
    /\ p.target_files = q.target_files
    /\ p.target_modules = q.target_modules

\* x in lst / lst.remove(x): identity or equality, the first such element
IndexOf(lst, p) ==
    LET hits == {i \in 1..Len(lst) : lst[i].oid = p.oid \/ EqProposal(lst[i], p)}
    IN IF hits = {} THEN 0 ELSE CHOOSE i \in hits : \A k \in hits : i <= k

RemoveAt(lst, i) == SubSeq(lst, 1, i - 1) \o SubSeq(lst, i + 1, Len(lst))

\* An assignment to an attribute of the object oid is seen through every
\* list that holds the object.
Mutate(lst, oid, field, value) ==
    [i \in 1..Len(lst) |->
        IF lst[i].oid = oid THEN [lst[i] EXCEPT ![field] = value] ELSE lst[i]]

MutateAll(W, oid, field, value) ==
    [W EXCEPT !.active = Mutate(@, oid, field, value),
              !.history = Mutate(@, oid, field, value),
              !.proposals = Mutate(@, oid, field, value)]

\* The identity of the next proposal object: one no earlier object has
FreshOid(L) == L.objects + 1

\* (mutant: the emergency-stop test dropped)
check_safety_constraints_cap_only(L) ==
    ~(Len(L.active_proposals) >= L.max_concurrent_proposals)

_check_safety_constraints(L) ==
    IF Len(L.active_proposals) >= L.max_concurrent_proposals THEN FALSE
    ELSE IF L.config.emergency_stop THEN FALSE
    ELSE TRUE

_observe(L, snapshot) ==
    IF L.components.observer = "none"
    THEN [value |-> EmptySnapshot, calls |-> <<>>]
    ELSE [value |-> snapshot, calls |-> <<"observer.collect">>]

_analyze(L, observations) ==
    IF L.components.analyzer = "none"
    THEN [value |-> <<>>, calls |-> <<>>]
    ELSE [value |-> analyze(observations), calls |-> <<"analyzer.analyze">>]

\* The governance loop of _propose over proposals[i..]: the decision of the
\* directive on each draft.  self.directive.evaluate_action is looked up
\* first (AttributeError on None), then the argument ActionType.EVOLVE_STRUCTURE
\* is evaluated (NameError: the module binds no such name), then the call is
\* made with the target_files list as the context target.
RECURSIVE Govern(_, _, _, _, _)
Govern(L, proposals, i, allowed, calls) ==
    IF i > Len(proposals)
    THEN [exc |-> "none", allowed |-> allowed, calls |-> calls]
    ELSE IF L.components.directive = "none"
    THEN [exc |-> "AttributeError", allowed |-> <<>>, calls |-> calls]
    ELSE IF "ActionType" \notin OuroborosModuleNames
    THEN [exc |-> "NameError", allowed |-> <<>>, calls |-> calls]
    ELSE LET p == proposals[i]
             res == _apply_laws("EVOLVE_STRUCTURE",
                                Context(PyList(p.target_files), S_empty, "absent"))
             called == Append(calls, "directive.evaluate_action")
         IN IF res.exc # "none"
            THEN [exc |-> res.exc, allowed |-> <<>>, calls |-> called]
            ELSE IF res.decision.allowed
            THEN Govern(L, proposals, i + 1,
                        Append(allowed,
                               IF res.decision.requires_hassan_approval
                               THEN [p EXCEPT !.requires_approval = TRUE]
                               ELSE p),
                        called)
            ELSE Govern(L, proposals, i + 1, allowed, called)

\* (mutant: the governance check left out, every draft accepted)
propose_ungoverned(L, pain_points, drafts) ==
    IF L.components.proposer = "none"
    THEN [exc |-> "none", allowed |-> <<>>, calls |-> <<>>]
    ELSE [exc |-> "none", allowed |-> drafts,
          calls |-> <<"proposer.generate_proposals">>]

\* _propose up to its return: the accepted proposals, which it has appended
\* to active_proposals, or the exception that left it before that.  An
\* injected stand-in proposer returns drafts; the Proposer class builds them.
_propose(L, pain_points, drafts) ==
    IF L.components.proposer = "none"
    THEN [exc |-> "none", allowed |-> <<>>, calls |-> <<>>]
    ELSE LET gen == IF L.components.proposer = "Proposer"
                    THEN generate_proposals(pain_points, FreshOid(L))
                    ELSE [exc |-> "none", proposals |-> drafts]
         IN IF gen.exc # "none"
            THEN [exc |-> gen.exc, allowed |-> <<>>,
                  calls |-> <<"proposer.generate_proposals">>]
            ELSE Govern(L, gen.proposals, 1, <<>>, <<"proposer.generate_proposals">>)

_simulate(L, W, oid) ==
    IF ~L.components.simulator THEN W
    ELSE [MutateAll(MutateAll(W, oid, "simulation_results", "results"),
                    oid, "stage", "simulate")
            EXCEPT !.calls = Append(@, "simulator.run")]

_review(L, W, oid) ==
    IF ~L.components.reviewer THEN W
    ELSE IF L.require_human_approval
    THEN [MutateAll(W, oid, "stage", "review")
            EXCEPT !.calls = Append(@, "reviewer.request_approval")]
    ELSE MutateAll(MutateAll(W, oid, "approved", TRUE), oid, "stage", "review")

_record(L, W, oid) ==
    IF ~L.components.recorder THEN W
    ELSE LET p == W.proposals[CHOOSE i \in 1..Len(W.proposals) : W.proposals[i].oid = oid]
             at == IndexOf(W.active, p)
             moved == [W EXCEPT !.calls = Append(@, "recorder.record"),
                                !.history = Append(@, p),
                                !.active = IF at = 0 THEN @ ELSE RemoveAt(@, at)]
         IN MutateAll(moved, oid, "stage", "record")

\* for proposal in proposals: self._<stage>(proposal)
RECURSIVE ForEach(_, _, _, _)
ForEach(stage, L, W, i) ==
    IF i > Len(W.proposals) THEN W
    ELSE LET oid == W.proposals[i].oid
             next == CASE stage = "simulate" -> _simulate(L, W, oid)
                       [] stage = "review" -> _review(L, W, oid)
                       [] OTHER -> _record(L, W, oid)
         IN ForEach(stage, L, next, i + 1)

\* (mutant: the flag is set but the loop is left enabled)
emergency_stop_flag_only(L) ==
    [L EXCEPT !.config.emergency_stop = TRUE, !.active_proposals = <<>>]

\* (mutant: the active proposals are kept)
emergency_stop_keeps_active(L) ==
    [L EXCEPT !.enabled = FALSE, !.config.emergency_stop = TRUE]

\* (mutant: the active proposals are moved to the history, not dropped)
emergency_stop_archives_active(L) ==
    [L EXCEPT !.enabled = FALSE, !.config.emergency_stop = TRUE,
              !.proposal_history = @ \o L.active_proposals,
              !.active_proposals = <<>>]

\* OuroborosLoop.emergency_stop
emergency_stop(L) ==
    [L EXCEPT !.enabled = FALSE, !.config.emergency_stop = TRUE,
              !.active_proposals = <<>>]

Outcome(L, outcome, ret, calls) ==
    [outcome |-> outcome, ret |-> ret, calls |-> calls,
     active |-> L.active_proposals, history |-> L.proposal_history]

\* OuroborosLoop.run_cycle, with the snapshot the observer would collect and
\* the drafts a stand-in proposer would return
run_cycle(L, snapshot, drafts) ==
    IF ~L.enabled THEN Outcome(L, "returned", <<>>, <<>>)
    ELSE IF ~_check_safety_constraints(L) THEN Outcome(L, "returned", <<>>, <<>>)
    ELSE LET observations == _observe(L, snapshot)
             pain_points == _analyze(L, observations.value)
             proposed == _propose(L, pain_points.value, drafts)
             calls == observations.calls \o pain_points.calls \o proposed.calls
         IN IF proposed.exc # "none"
            THEN Outcome(L, proposed.exc, <<>>, calls)
            ELSE LET W0 == [active |-> L.active_proposals \o proposed.allowed,
                            history |-> L.proposal_history,
                            proposals |-> proposed.allowed,
                            calls |-> calls]
                     W1 == ForEach("simulate", L, W0, 1)
                     W2 == ForEach("review", L, W1, 1)
                     W3 == ForEach("record", L, W2, 1)
                 IN [outcome |-> "returned", ret |-> W3.proposals,
                     calls |-> W3.calls, active |-> W3.active,
                     history |-> W3.history]

----------------------------------------------------------------------------
(* Inputs of the loop *)

LoopConfigs ==
    [enabled : BOOLEAN, max_concurrent : {MaxConcurrent},
     require_approval : BOOLEAN, emergency_stop : BOOLEAN]

\* The injected components; the simulator and the reviewer come together
ComponentSets ==
    {c \in [observer : {"none", "stub"}, analyzer : {"none", "Analyzer"},
            proposer : {"none", "Proposer", "stub"}, simulator : BOOLEAN,
            reviewer : BOOLEAN, recorder : BOOLEAN,
            directive : {"none", "SovereignDirective"}] :
        c.simulator = c.reviewer}

CacheSnapshot ==
    [EmptySnapshot EXCEPT
        !.drift_signals = <<[severity |-> S_critical, component |-> S_cache,
                             description |-> "d1"]>>]

Snapshots ==
    {EmptySnapshot, CacheSnapshot,
     [EmptySnapshot EXCEPT
        !.code_todos = <<[type |-> "bug", file |-> F_a_py]>>, !.error_rate = 60]}

\* What a stand-in proposer returns: drafts with these target files
DraftFiles == {<<>>, <<<<F_a_py>>>>, <<<<S_dotdot>>, <<F_a_py>>>>}

DraftsFor(L, files) ==
    [i \in 1..Len(files) |->
        EvolutionProposal(FreshOid(L) + i - 1, Title("draft", "none", 0), files[i], <<>>)]

NoCycle ==
    [op |-> "none", prev_op |-> "none", outcome |-> "none", ret |-> <<>>,
     calls |-> <<>>, snapshot |-> EmptySnapshot, drafts |-> <<>>,
     pre |-> [enabled |-> TRUE, emergency_stop |-> FALSE, active |-> <<>>,
              history |-> <<>>]]

\* A run_cycle call in progress: the statement it is at and its local
\* variables.  stopped_at is where the call was when emergency_stop was last
\* invoked during it, prior_stop whether emergency_stop was invoked before it.
NoFlight ==
    [pc |-> "idle",
     begin |-> [config |-> [enabled |-> TRUE, max_concurrent |-> MaxConcurrent,
                            require_approval |-> TRUE, emergency_stop |-> FALSE],
                enabled |-> TRUE, max_concurrent_proposals |-> MaxConcurrent,
                require_human_approval |-> TRUE,
                components |-> [observer |-> "none", analyzer |-> "none",
                                proposer |-> "none", simulator |-> FALSE,
                                reviewer |-> FALSE, recorder |-> FALSE,
                                directive |-> "none"],
                active_proposals |-> <<>>, proposal_history |-> <<>>, objects |-> 0],
     snapshot |-> EmptySnapshot, drafts |-> <<>>,
     observations |-> EmptySnapshot, pain_points |-> <<>>, proposals |-> <<>>,
     calls |-> <<>>, outcome |-> "none", ret |-> <<>>,
     stopped_at |-> "none", prior_stop |-> FALSE]

Pre ==
    [enabled |-> enabled, emergency_stop |-> loop_config.emergency_stop,
     active |-> active_proposals, history |-> proposal_history]

IdleLoop ==
    /\ loop_config = [enabled |-> TRUE, max_concurrent |-> MaxConcurrent,
                      require_approval |-> TRUE, emergency_stop |-> FALSE]
    /\ enabled = TRUE
    /\ max_concurrent_proposals = MaxConcurrent
    /\ require_human_approval = TRUE
    /\ components = [observer |-> "none", analyzer |-> "none", proposer |-> "none",
                     simulator |-> FALSE, reviewer |-> FALSE, recorder |-> FALSE,
                     directive |-> "none"]
    /\ active_proposals = <<>>
    /\ proposal_history = <<>>
    /\ cycle = NoCycle
    /\ objects = 0
    /\ discarded = {}
    /\ flight = NoFlight

----------------------------------------------------------------------------
(* Operations on the loop *)

RunCycle ==
    \E snapshot \in Snapshots, files \in DraftFiles :
        LET drafts == DraftsFor(Loop, files)
            out == run_cycle(Loop, snapshot, drafts)
        IN
        /\ Len(proposal_history) <= MaxHistory
        /\ active_proposals' = out.active
        /\ proposal_history' = out.history
        /\ cycle' = [op |-> "run_cycle", prev_op |-> cycle.op, outcome |-> out.outcome,
                     ret |-> out.ret, calls |-> out.calls, snapshot |-> snapshot,
                     drafts |-> drafts, pre |-> Pre]
        /\ objects' = objects + Len(out.ret)
        /\ UNCHANGED <<loop_config, enabled, max_concurrent_proposals,
                       require_human_approval, components, discarded, flight>>
        /\ UNCHANGED <<policyVars, directiveVars, safeguardVars, sandboxVars, analyzerVars>>

EmergencyStop ==
    /\ enabled' = emergency_stop(Loop).enabled
    /\ loop_config' = emergency_stop(Loop).config
    /\ active_proposals' = emergency_stop(Loop).active_proposals
    /\ cycle' = [NoCycle EXCEPT !.op = "emergency_stop", !.prev_op = cycle.op,
                                !.outcome = "returned", !.pre = Pre]
    /\ discarded' = discarded \cup {active_proposals[i] : i \in 1..Len(active_proposals)}
    /\ proposal_history' = emergency_stop(Loop).proposal_history
    /\ UNCHANGED <<max_concurrent_proposals, require_human_approval, components,
                   objects, flight>>
    /\ UNCHANGED <<policyVars, directiveVars, safeguardVars, sandboxVars, analyzerVars>>

\* The owner of the loop appends a proposal to the public list, as the test
\* of the safety constraints does until the cap is reached.
AppendActive ==
    /\ Len(active_proposals) < max_concurrent_proposals
    /\ objects < MaxObjects
    /\ objects' = objects + 1
    /\ active_proposals' =
          Append(active_proposals,
                 EvolutionProposal(FreshOid(Loop), Title("Test", "none", 0), <<>>, <<>>))
    /\ cycle' = [NoCycle EXCEPT !.op = "append", !.prev_op = cycle.op, !.pre = Pre]
    /\ UNCHANGED <<loop_config, enabled, max_concurrent_proposals,
                   require_human_approval, components, proposal_history, discarded,
                   flight>>
    /\ UNCHANGED <<policyVars, directiveVars, safeguardVars, sandboxVars, analyzerVars>>

----------------------------------------------------------------------------
(* run_cycle stage by stage, with emergency_stop called from another thread *)

\* The stages' results as run_cycle holds them between two statements
Same(L, F) ==
    [flight |-> F, active |-> L.active_proposals, history |-> L.proposal_history]

\* run_cycle up to "Starting Ouroboros evolution cycle": the two checks
begin_cycle(L, F, snapshot, drafts) ==
    LET begun == [NoFlight EXCEPT !.begin = L, !.snapshot = snapshot,
                                  !.drafts = drafts,
                                  !.prior_stop = F.prior_stop \/ F.stopped_at # "none"]
    IN IF ~L.enabled
       THEN [begun EXCEPT !.pc = "done", !.outcome = "returned"]
       ELSE IF ~_check_safety_constraints(L)
       THEN [begun EXCEPT !.pc = "done", !.outcome = "returned"]
       ELSE [begun EXCEPT !.pc = "observe"]

\* observations = self._observe()
stage_observe(L, F) ==
    LET observations == _observe(L, F.snapshot)
    IN Same(L, [F EXCEPT !.pc = "analyze", !.observations = observations.value,
                         !.calls = @ \o observations.calls])

\* (mutant: the stage is left out once the loop has been disabled)
stage_analyze_checks_enabled(L, F) ==
    IF ~L.enabled THEN Same(L, [F EXCEPT !.pc = "propose"])
    ELSE LET pain_points == _analyze(L, F.observations)
         IN Same(L, [F EXCEPT !.pc = "propose", !.pain_points = pain_points.value,
                              !.calls = @ \o pain_points.calls])

\* pain_points = self._analyze(observations)
stage_analyze(L, F) ==
    LET pain_points == _analyze(L, F.observations)
    IN Same(L, [F EXCEPT !.pc = "propose", !.pain_points = pain_points.value,
                         !.calls = @ \o pain_points.calls])

\* proposals = self._propose(pain_points)
stage_propose(L, F) ==
    LET proposed == _propose(L, F.pain_points, F.drafts)
    IN IF proposed.exc # "none"
       THEN Same(L, [F EXCEPT !.pc = "done", !.outcome = proposed.exc,
                              !.calls = @ \o proposed.calls])
       ELSE [flight |-> [F EXCEPT !.pc = "simulate", !.proposals = proposed.allowed,
                                  !.calls = @ \o proposed.calls],
             active |-> L.active_proposals \o proposed.allowed,
             history |-> L.proposal_history]

\* for proposal in proposals: self._simulate / _review / _record (proposal)
stage_for_each(stage, next, L, F) ==
    LET W == ForEach(stage, L,
                     [active |-> L.active_proposals, history |-> L.proposal_history,
                      proposals |-> F.proposals, calls |-> F.calls], 1)
    IN [flight |-> [F EXCEPT !.pc = next, !.proposals = W.proposals,
                             !.calls = W.calls],
        active |-> W.active, history |-> W.history]

\* return proposals
return_proposals(L, F) ==
    Same(L, [F EXCEPT !.pc = "done", !.outcome = "returned", !.ret = F.proposals])

InFlight == {"observe", "analyze", "propose", "simulate", "review", "record", "return"}

CycleBegin ==
    \E snapshot \in Snapshots, files \in DraftFiles :
        /\ flight.pc \in {"idle", "done"}
        /\ flight' = begin_cycle(Loop, flight, snapshot, DraftsFor(Loop, files))
        /\ UNCHANGED <<loop_config, enabled, max_concurrent_proposals,
                       require_human_approval, components, active_proposals,
                       proposal_history, cycle, objects, discarded>>
        /\ UNCHANGED <<policyVars, directiveVars, safeguardVars, sandboxVars, analyzerVars>>

Stage(out) ==
    /\ flight' = out.flight
    /\ active_proposals' = out.active
    /\ proposal_history' = out.history
    /\ objects' = objects + (Len(out.flight.proposals) - Len(flight.proposals))
    /\ UNCHANGED <<loop_config, enabled, max_concurrent_proposals,
                   require_human_approval, components, cycle, discarded>>
    /\ UNCHANGED <<policyVars, directiveVars, safeguardVars, sandboxVars, analyzerVars>>

StageObserve == flight.pc = "observe" /\ Stage(stage_observe(Loop, flight))

StageAnalyze == flight.pc = "analyze" /\ Stage(stage_analyze(Loop, flight))

StagePropose == flight.pc = "propose" /\ Stage(stage_propose(Loop, flight))

StageSimulate ==
    flight.pc = "simulate" /\ Stage(stage_for_each("simulate", "review", Loop, flight))

StageReview ==
    flight.pc = "review" /\ Stage(stage_for_each("review", "record", Loop, flight))

StageRecord ==
    flight.pc = "record" /\ Stage(stage_for_each("record", "return", Loop, flight))

CycleReturn == flight.pc = "return" /\ Stage(return_proposals(Loop, flight))

\* emergency_stop() called by another thread, at any point of the cycle
ConcurrentEmergencyStop ==
    /\ enabled' = emergency_stop(Loop).enabled
    /\ loop_config' = emergency_stop(Loop).config
    /\ active_proposals' = emergency_stop(Loop).active_proposals
    /\ proposal_history' = emergency_stop(Loop).proposal_history
    /\ discarded' = discarded \cup {active_proposals[i] : i \in 1..Len(active_proposals)}
    /\ flight' = [flight EXCEPT !.stopped_at = flight.pc]
    /\ UNCHANGED <<max_concurrent_proposals, require_human_approval, components,
                   cycle, objects>>
    /\ UNCHANGED <<policyVars, directiveVars, safeguardVars, sandboxVars, analyzerVars>>

----------------------------------------------------------------------------
(* Specifications *)

\* OuroborosLoop.__init__(config), then the components injected
Init ==
    /\ loop_config \in LoopConfigs
    /\ enabled = loop_config.enabled
    /\ max_concurrent_proposals = loop_config.max_concurrent
    /\ require_human_approval = loop_config.require_approval
    /\ components \in ComponentSets
    /\ active_proposals = <<>>
    /\ proposal_history = <<>>
    /\ cycle = NoCycle
    /\ objects = 0
    /\ discarded = {}
    /\ flight = NoFlight
    /\ IdlePolicy
    /\ IdleDirective
    /\ IdleSafeguards
    /\ IdleSandbox
    /\ IdleAnalyzer

Next == RunCycle \/ EmergencyStop \/ AppendActive

Spec == Init /\ [][Next]_vars

InitSandbox ==
    /\ workspaces = {}
    /\ orig_telemetry = <<>>
    /\ orig_memory = {}
    /\ sbRun = NoRun
    /\ IdlePolicy
    /\ IdleDirective
    /\ IdleSafeguards
    /\ IdleLoop
    /\ IdleAnalyzer

NextSandbox == Run \/ ParentRecordEvent

SpecSandbox == InitSandbox /\ [][NextSandbox]_vars

InitSafeguards ==
    /\ sgConfig \in SgConfigs
    /\ emergency_stop_active = FALSE
    /\ proposals_today = 0
    /\ sgCheck = NoCheck
    /\ IdlePolicy
    /\ IdleDirective
    /\ IdleSandbox
    /\ IdleLoop
    /\ IdleAnalyzer

NextSafeguards ==
    \/ CheckProposalAllowed
    \/ activate_emergency_stop
    \/ deactivate_emergency_stop
    \/ increment_proposal_count
    \/ reset_daily_counters

SpecSafeguards == InitSafeguards /\ [][NextSafeguards]_vars

NextPolicy == PolicyEvaluate

InitPolicy ==
    /\ pInput \in PolicyInputs
    /\ pResult = Pending
    /\ IdleDirective
    /\ IdleSafeguards
    /\ IdleSandbox
    /\ IdleLoop
    /\ IdleAnalyzer

SpecPolicy == InitPolicy /\ [][NextPolicy]_vars

NextDirective == EvaluateAction \/ LogModification \/ GetRecentLogs

InitDirective ==
    /\ audit_file = <<>>
    /\ dCall = NoCall
    /\ dRecent = <<>>
    /\ IdlePolicy
    /\ IdleSafeguards
    /\ IdleSandbox
    /\ IdleLoop
    /\ IdleAnalyzer

SpecDirective == InitDirective /\ [][NextDirective]_vars

InitAnalyzer ==
    /\ aSnapshot \in AnalyzerSnapshots
    /\ aResults = <<>>
    /\ IdlePolicy
    /\ IdleDirective
    /\ IdleSafeguards
    /\ IdleSandbox
    /\ IdleLoop

NextAnalyzer == Analyze

SpecAnalyzer == InitAnalyzer /\ [][NextAnalyzer]_vars

InitInFlight ==
    /\ loop_config \in LoopConfigs
    /\ enabled = loop_config.enabled
    /\ max_concurrent_proposals = loop_config.max_concurrent
    /\ require_human_approval = loop_config.require_approval
    /\ components \in ComponentSets
    /\ active_proposals = <<>>
    /\ proposal_history = <<>>
    /\ cycle = NoCycle
    /\ objects = 0
    /\ discarded = {}
    /\ flight = NoFlight
    /\ IdlePolicy
    /\ IdleDirective
    /\ IdleSafeguards
    /\ IdleSandbox
    /\ IdleAnalyzer

NextInFlight ==
    \/ CycleBegin
    \/ StageObserve
    \/ StageAnalyze
    \/ StagePropose
    \/ StageSimulate
    \/ StageReview
    \/ StageRecord
    \/ CycleReturn
    \/ ConcurrentEmergencyStop

SpecInFlight == InitInFlight /\ [][NextInFlight]_vars

----------------------------------------------------------------------------
(* Properties of the policy gate *)

IsAbsolutePath(s) == Len(s) >= 1 /\ s[1] = "/"

HasParentTraversal(s) == \E i \in 1..(Len(s) - 1) : s[i] = "." /\ s[i + 1] = "."

MentionsCore(s) ==
    \/ \E i \in 0..(Len(s) - 6) : SubSeq(s, i + 1, i + 6) = S_kernel
    \/ \E i \in 0..(Len(s) - 10) : SubSeq(s, i + 1, i + 10) = S_governance

Decided(allowed, approval, risk) ==
    /\ pResult.exc = "none"
    /\ pResult.decision.allowed = allowed
    /\ pResult.decision.requires_hassan_approval = approval
    /\ pResult.decision.risk = risk

PolicyCalledOnPath == pResult # Pending /\ pInput.context.target.k = "str"

\* C8: whatever the action type, evaluate_action on a context whose target is
\* an absolute path or contains ".." returns allowed=False,
\* requires_approval=False, risk CRITICAL.
C8_ForbiddenScopeDenied ==
    (/\ PolicyCalledOnPath
     /\ \/ IsAbsolutePath(pInput.context.target.v)
        \/ HasParentTraversal(pInput.context.target.v))
    => Decided(FALSE, FALSE, "CRITICAL")

C8_Witness ==
    /\ PolicyCalledOnPath
    /\ pInput.action_type = "MODIFY_CODE"
    /\ HasParentTraversal(pInput.context.target.v)
    /\ MentionsCore(pInput.context.target.v)
    /\ Decided(FALSE, FALSE, "CRITICAL")

\* C9 as stated: for MODIFY_CODE, DELETE_FILE and EVOLVE_STRUCTURE a target
\* path containing "governance" or "kernel" gives allowed, requires_approval,
\* HIGH, and any other path gives allowed, no approval, MEDIUM.
C9_AsStated ==
    (PolicyCalledOnPath /\ pInput.action_type \in ModificationActions)
    => IF MentionsCore(pInput.context.target.v)
       THEN Decided(TRUE, TRUE, "HIGH")
       ELSE Decided(TRUE, FALSE, "MEDIUM")

\* C9 amended: the same, for target paths that are outside the forbidden
\* scope (not absolute, no ".."); the forbidden-scope rule is applied first.
C9_ModificationOutsideForbiddenScope ==
    (/\ PolicyCalledOnPath
     /\ pInput.action_type \in ModificationActions
     /\ ~IsAbsolutePath(pInput.context.target.v)
     /\ ~HasParentTraversal(pInput.context.target.v))
    => IF MentionsCore(pInput.context.target.v)
       THEN Decided(TRUE, TRUE, "HIGH")
       ELSE Decided(TRUE, FALSE, "MEDIUM")

C9_Witness ==
    /\ PolicyCalledOnPath
    /\ pInput.action_type = "DELETE_FILE"
    /\ pInput.context.target.v = S_a \o S_kernel
    /\ Decided(TRUE, TRUE, "HIGH")

----------------------------------------------------------------------------
(* Properties of the audit trail of decisions *)

AuditWriteSucceeds == dCall.ioOk /\ dCall.context.extra # "object"

RecentIsTheDecisionOfTheCall ==
    /\ Len(dRecent) = 1
    /\ dRecent[1].type = "DECISION"
    /\ dRecent[1].context.target = dCall.context.target
    /\ dRecent[1].context.command = dCall.context.command
    /\ dRecent[1].context.extra = dCall.context.extra
    /\ dRecent[1].decision.allowed = dCall.result.decision.allowed
    /\ dRecent[1].decision.risk = dCall.result.decision.risk

\* C5 as stated: every call to evaluate_action makes the audit log exactly
\* one entry longer, and get_recent_logs(1) right after returns that entry,
\* of type DECISION and with the call's context.
C5_AsStated ==
    dCall.op = "evaluate_action"
    => /\ Len(audit_file) = Len(dCall.preFile) + 1
       /\ RecentIsTheDecisionOfTheCall

\* C5 amended: a call that returns a decision and whose audit write succeeds
\* appends exactly one entry, which get_recent_logs(1) then returns (type
\* DECISION, the call's context); a call whose write fails, or that raises
\* before logging, leaves the log as it was.
C5_OneEntryPerLoggedDecision ==
    dCall.op = "evaluate_action"
    => IF dCall.result.exc = "none" /\ AuditWriteSucceeds
       THEN /\ Len(audit_file) = Len(dCall.preFile) + 1
            /\ SubSeq(audit_file, 1, Len(dCall.preFile)) = dCall.preFile
            /\ RecentIsTheDecisionOfTheCall
       ELSE audit_file = dCall.preFile

C5_Witness ==
    /\ dCall.op = "evaluate_action"
    /\ dCall.result.exc = "none"
    /\ AuditWriteSucceeds
    /\ Len(dCall.preFile) >= 1
    /\ Len(audit_file) = Len(dCall.preFile) + 1
    /\ RecentIsTheDecisionOfTheCall

----------------------------------------------------------------------------
(* Properties of the safety layer *)

\* C10: check_proposal_allowed rejects every proposal with more target files
\* than max_files_per_proposal; with no emergency stop and the daily count
\* under its limit the reason is "Too many files (<n> > <limit>)".
C10_TooManyFilesRejected ==
    (sgCheck.called /\ Len(sgCheck.target_files) > sgConfig.max_files_per_proposal)
    => /\ ~sgCheck.result.allowed
       /\ (~emergency_stop_active /\ proposals_today < sgConfig.max_proposals_per_day)
          => sgCheck.result.reason =
                SgReason("Too many files", Len(sgCheck.target_files),
                         sgConfig.max_files_per_proposal, <<>>)

\* limit 3 and 4 files gives (False, "Too many files (4 > 3)")
C10_Witness ==
    /\ sgCheck.called
    /\ sgConfig.max_files_per_proposal = 3
    /\ Len(sgCheck.target_files) = 4
    /\ sgCheck.result = [allowed |-> FALSE,
                         reason |-> SgReason("Too many files", 4, 3, <<>>)]

----------------------------------------------------------------------------
(* Properties of the sandbox *)

\* C7: whether the wrapped callable returns or raises, the temporary
\* workspace of the run no longer exists when run() exits, and when the
\* callable raises, that same exception (not one raised during cleanup)
\* propagates to the caller.
C7_AsStated ==
    sbRun.called
    => /\ sbRun.temp_dir \notin workspaces
       /\ sbRun.callable.raises => sbRun.outcome = "ValueError"

----------------------------------------------------------------------------
(* Properties of the Ouroboros loop *)

CycleRan == cycle.op = "run_cycle"

\* run_cycle passed the enabled test and _check_safety_constraints
CyclePassedTheChecks ==
    /\ CycleRan
    /\ cycle.pre.enabled
    /\ ~cycle.pre.emergency_stop
    /\ Len(cycle.pre.active) < max_concurrent_proposals

\* C1: whatever run_cycle() and emergency_stop() calls were made and whatever
\* components are injected, the number of active proposals is at most
\* max_concurrent_proposals before and after every run_cycle() call.
C1_ActiveProposalsWithinCap ==
    /\ Len(active_proposals) <= max_concurrent_proposals
    /\ CycleRan => Len(cycle.pre.active) <= max_concurrent_proposals

\* A cycle that passed the checks with an active proposal, in which the
\* proposer returned more drafts than the cap leaves room for.
C1_Witness ==
    /\ CyclePassedTheChecks
    /\ components.proposer = "stub"
    /\ cycle.pre.active # <<>>
    /\ Len(cycle.pre.active) + Len(cycle.drafts) > max_concurrent_proposals
    /\ "proposer.generate_proposals" \in {cycle.calls[i] : i \in 1..Len(cycle.calls)}

\* C2: after emergency_stop() the loop is disabled, its emergency_stop flag
\* is set and no proposal is active; a second emergency_stop() leaves
\* enabled, the flag, active_proposals and proposal_history as they were.
C2_EmergencyStopHaltsAndIsIdempotent ==
    cycle.op = "emergency_stop" =>
        /\ enabled = FALSE
        /\ loop_config.emergency_stop = TRUE
        /\ active_proposals = <<>>
        /\ proposal_history = cycle.pre.history
        /\ cycle.prev_op = "emergency_stop" => Pre = cycle.pre

\* A second emergency_stop() right after a first
C2_Witness ==
    cycle.op = "emergency_stop" /\ cycle.prev_op = "emergency_stop"

\* emergency_stop() on an enabled loop with active proposals
C2_WitnessFirstCall ==
    /\ cycle.op = "emergency_stop"
    /\ cycle.pre.enabled
    /\ ~cycle.pre.emergency_stop
    /\ cycle.pre.active # <<>>

CycleAborted ==
    /\ CycleRan
    /\ \/ ~cycle.pre.enabled
       \/ Len(cycle.pre.active) >= max_concurrent_proposals
       \/ cycle.pre.emergency_stop

\* C3: a run_cycle() called on a disabled loop, with the cap reached or with
\* the emergency-stop flag set returns [], calls no component and leaves
\* active_proposals and proposal_history as they were.
C3_AbortedCycleDoesNothing ==
    CycleAborted =>
        /\ cycle.outcome = "returned"
        /\ cycle.ret = <<>>
        /\ cycle.calls = <<>>
        /\ active_proposals = cycle.pre.active
        /\ proposal_history = cycle.pre.history

\* The flag alone aborts: enabled, under the cap, an observer to call
C3_Witness ==
    /\ CycleRan
    /\ cycle.pre.emergency_stop
    /\ cycle.pre.enabled
    /\ Len(cycle.pre.active) < max_concurrent_proposals
    /\ components.observer = "stub"
    /\ components.proposer = "stub"
    /\ cycle.drafts # <<>>

C3_WitnessCapReached ==
    /\ CycleRan
    /\ cycle.pre.enabled
    /\ ~cycle.pre.emergency_stop
    /\ Len(cycle.pre.active) >= max_concurrent_proposals

Count(calls, name) == Cardinality({i \in 1..Len(calls) : calls[i] = name})

\* C4 (as stated): in a cycle the Safety Layer is asked about every draft
\* the proposer returned.
C4_AsStated ==
    (CyclePassedTheChecks /\ components.proposer = "stub") =>
        Count(cycle.calls, "safeguards.check_proposal_allowed") = Len(cycle.drafts)

\* C6 (as stated): a cycle of a fully equipped loop over a snapshot with one
\* critical drift signal on "cache" returns with the proposal
\* "Optimize cache performance" in proposal_history.
C6_AsStated ==
    (/\ CyclePassedTheChecks
     /\ cycle.snapshot = CacheSnapshot
     /\ components = [observer |-> "stub", analyzer |-> "Analyzer",
                      proposer |-> "Proposer", simulator |-> TRUE,
                      reviewer |-> TRUE, recorder |-> TRUE,
                      directive |-> "SovereignDirective"])
    => /\ analyze(cycle.snapshot) = <<PainPoint("drift", 10, S_cache, 0, <<>>,
                                                "mirroros_drift", Desc("d1", 0))>>
       /\ cycle.outcome = "returned"
       /\ \E i \in 1..Len(proposal_history) :
             proposal_history[i].title = Title("Optimize {} performance", S_cache, 0)

----------------------------------------------------------------------------
(* Properties of the safety layer: forbidden targets and the order of checks *)

\* A target file contains a configured token as a substring, letter case of
\* neither side counting
MatchesForbiddenToken(target_files, forbidden_targets) ==
    \E i \in 1..Len(target_files), j \in 1..Len(forbidden_targets) :
        StrContains(Lower(target_files[i]), Lower(forbidden_targets[j]))

NoEarlierCheckFails ==
    /\ ~emergency_stop_active
    /\ proposals_today < sgConfig.max_proposals_per_day
    /\ Len(sgCheck.target_files) <= sgConfig.max_files_per_proposal

\* C11 (as stated): a proposal one of whose target files contains a
\* configured forbidden token, case-insensitively, is rejected, with a
\* reason "Forbidden target: ..." when no earlier check fails.
C11_AsStated ==
    (sgCheck.called
     /\ MatchesForbiddenToken(sgCheck.target_files, sgConfig.forbidden_targets))
    => /\ ~sgCheck.result.allowed
       /\ NoEarlierCheckFails => sgCheck.result.reason.text = "Forbidden target"

\* C12 (as stated): the reason returned is that of the first failing check
\* in the order emergency stop, daily limit, file count, forbidden target,
\* and the result is (True, "OK") exactly when none of the four fails.
C12_AsStated ==
    sgCheck.called =>
        LET r == sgCheck.result
            tf == sgCheck.target_files
            stop == emergency_stop_active
            daily == proposals_today >= sgConfig.max_proposals_per_day
            count == Len(tf) > sgConfig.max_files_per_proposal
            forbidden == MatchesForbiddenToken(tf, sgConfig.forbidden_targets)
        IN /\ stop => ~r.allowed /\ r.reason.text = "Emergency stop is active"
           /\ (~stop /\ daily) =>
                 ~r.allowed /\ r.reason.text = "Daily proposal limit reached"
           /\ (~stop /\ ~daily /\ count) =>
                 ~r.allowed /\ r.reason.text = "Too many files"
           /\ (~stop /\ ~daily /\ ~count /\ forbidden) =>
                 ~r.allowed /\ r.reason.text = "Forbidden target"
           /\ (r.allowed /\ r.reason.text = "OK")
                 <=> ~(stop \/ daily \/ count \/ forbidden)

\* The order of the checks with the fourth as the code computes it (the
\* target lowered, the token as configured): this part holds.
C12_OrderOfChecksAsComputed ==
    sgCheck.called =>
        LET r == sgCheck.result
            tf == sgCheck.target_files
            stop == emergency_stop_active
            daily == proposals_today >= sgConfig.max_proposals_per_day
            count == Len(tf) > sgConfig.max_files_per_proposal
            forbidden == \E i \in 1..Len(tf), j \in 1..Len(sgConfig.forbidden_targets) :
                            StrContains(Lower(tf[i]), sgConfig.forbidden_targets[j])
        IN /\ stop => ~r.allowed /\ r.reason.text = "Emergency stop is active"
           /\ (~stop /\ daily) =>
                 ~r.allowed /\ r.reason.text = "Daily proposal limit reached"
           /\ (~stop /\ ~daily /\ count) =>
                 ~r.allowed /\ r.reason.text = "Too many files"
           /\ (~stop /\ ~daily /\ ~count /\ forbidden) =>
                 ~r.allowed /\ r.reason.text = "Forbidden target"
           /\ (r.allowed /\ r.reason.text = "OK")
                 <=> ~(stop \/ daily \/ count \/ forbidden)

----------------------------------------------------------------------------
(* Properties of the Analyzer *)

\* The order in which analyze() produces the categories
CategoryRank(type) ==
    CASE type = "drift" -> 1
      [] type = "bugs" -> 2
      [] type = "technical_debt" -> 3
      [] type = "reliability" -> 4
      [] OTHER -> 5

OfPriority(points, v) == SelectSeq(points, LAMBDA x : x.priority = v)

OfType(points, t) == SelectSeq(points, LAMBDA x : x.type = t)

\* The pain points as produced: by category, input order within a category
InProductionOrder(points, observations) ==
    /\ \A i, j \in 1..Len(points) :
          i < j => CategoryRank(points[i].type) <= CategoryRank(points[j].type)
    /\ [i \in 1..Len(OfType(points, "drift")) |->
           OfType(points, "drift")[i].description.text]
       = [i \in 1..Len(observations.drift_signals) |->
             observations.drift_signals[i].description]
    /\ [i \in 1..Len(OfType(points, "user_feedback")) |->
           OfType(points, "user_feedback")[i].description.text]
       = [i \in 1..Len(observations.manual_feedback) |->
             observations.manual_feedback[i].description]

\* C13: analyze(snapshot) returns the pain points by descending priority,
\* those of equal priority in the order they were produced (drift signals,
\* bugs, debt, reliability, feedback; input order within a category), and a
\* second call on the same snapshot returns the same sequence.
C13_SortedStableAndDeterministic ==
    \A k \in 1..Len(aResults) :
        LET r == aResults[k]
            produced == collect_pain_points(aSnapshot)
        IN /\ InProductionOrder(produced, aSnapshot)
           /\ Len(r) = Len(produced)
           /\ \A i, j \in 1..Len(r) : i < j => r[i].priority >= r[j].priority
           /\ \A v \in 0..10 : OfPriority(r, v) = OfPriority(produced, v)
           /\ r = aResults[1]

\* Two calls on a snapshot that the sort reorders, with a tie between two
\* categories and a tie between two different items of one category
C13_Witness ==
    /\ Len(aResults) = 2
    /\ aResults[1] # collect_pain_points(aSnapshot)
    /\ \E i, j \in 1..Len(aResults[1]) :
          /\ i < j
          /\ aResults[1][i].priority = aResults[1][j].priority
          /\ aResults[1][i].type # aResults[1][j].type
    /\ \E i, j \in 1..Len(aResults[1]) :
          /\ i < j
          /\ aResults[1][i].priority = aResults[1][j].priority
          /\ aResults[1][i].type = aResults[1][j].type
          /\ aResults[1][i] # aResults[1][j]

----------------------------------------------------------------------------
(* Properties of the audit log as a queryable trail *)

Min(a, b) == IF a < b THEN a ELSE b

\* C14 (as stated): get_recent_logs(limit), limit >= 0, returns the
\* min(limit, n) most recently appended entries, most recent first, and
\* leaves the log as it was.
C14_AsStated ==
    dCall.op = "get_recent_logs" =>
        LET n == Len(audit_file) IN
        /\ Len(dRecent) = Min(dCall.limit, n)
        /\ \A i \in 1..Len(dRecent) : dRecent[i] = json_loads(audit_file[n + 1 - i])
        /\ audit_file = dCall.preFile

\* The same for limit >= 1: this part holds.
C14_RecentEntriesForPositiveLimit ==
    (dCall.op = "get_recent_logs" /\ dCall.limit >= 1) =>
        LET n == Len(audit_file) IN
        /\ Len(dRecent) = Min(dCall.limit, n)
        /\ \A i \in 1..Len(dRecent) : dRecent[i] = json_loads(audit_file[n + 1 - i])
        /\ audit_file = dCall.preFile

\* No operation rewrites, reorders or deletes a line of the log: this part
\* holds.
C14_LogOnlyGrows ==
    [][/\ Len(audit_file') >= Len(audit_file)
       /\ SubSeq(audit_file', 1, Len(audit_file)) = audit_file]_vars

\* evaluate_action got as far as appending the audit entry
AppendAttempted ==
    /\ dCall.op = "evaluate_action"
    /\ _apply_laws(dCall.action_type, dCall.context).exc = "none"

\* C15: when the append of the audit entry fails (the file cannot be
\* written, or the entry cannot be encoded), evaluate_action returns, without
\* raising, the decision it returns when the append succeeds; only the log
\* differs, being left as it was.
C15_AuditFailureDoesNotBlockDecision ==
    (AppendAttempted /\ ~AuditWriteSucceeds) =>
        /\ dCall.result.exc = "none"
        /\ dCall.result =
              evaluate_action(dCall.preFile, dCall.action_type,
                              [dCall.context EXCEPT !.extra = "absent"], TRUE).result
        /\ Len(evaluate_action(dCall.preFile, dCall.action_type,
                               [dCall.context EXCEPT !.extra = "absent"], TRUE).file)
              = Len(dCall.preFile) + 1
        /\ audit_file = dCall.preFile

\* A denial and an allowance, each decided while the file cannot be written
C15_Witness ==
    /\ AppendAttempted
    /\ ~dCall.ioOk
    /\ Len(dCall.preFile) >= 1
    /\ ~dCall.result.decision.allowed
    /\ audit_file = dCall.preFile

C15_WitnessEncodingFails ==
    /\ AppendAttempted
    /\ dCall.ioOk
    /\ dCall.context.extra = "object"
    /\ dCall.result.decision.allowed

----------------------------------------------------------------------------
(* Properties of the loop: emergency stop, policy denial, missing components *)

Oids(proposals) == {proposals[i].oid : i \in 1..Len(proposals)}

DiscardedOids == {p.oid : p \in discarded}

\* C18: emergency_stop() leaves proposal_history as it was, and a proposal
\* it cleared from active_proposals is never afterwards in proposal_history
\* nor among the proposals a cycle hands to the recorder.
C18_StoppedProposalsAreNeverRecorded ==
    /\ cycle.op = "emergency_stop" => proposal_history = cycle.pre.history
    /\ Oids(proposal_history) \cap DiscardedOids = {}
    /\ (CycleRan /\ Count(cycle.calls, "recorder.record") > 0)
          => Oids(cycle.ret) \cap DiscardedOids = {}

\* run_cycle() with a recorder and a proposer that drafts, called after an
\* emergency_stop() that cleared proposals
C18_Witness ==
    /\ CycleRan
    /\ discarded # {}
    /\ components.recorder
    /\ components.proposer = "stub"
    /\ cycle.drafts # <<>>
    /\ Oids(cycle.pre.active) \cap DiscardedOids = {}
    /\ cycle.pre.active # <<>>

SomeStageComponentMissing ==
    \/ components.observer = "none"
    \/ components.analyzer = "none"
    \/ components.proposer = "none"
    \/ ~components.simulator
    \/ ~components.reviewer
    \/ ~components.recorder

\* C19 (as stated): a cycle whose proposer returned drafts asks the Policy
\* Gate about each of them and returns; a denied draft is dropped and the
\* others go on: the proposals returned are drafts of the cycle, in order.
C19_AsStated ==
    (/\ CyclePassedTheChecks
     /\ components.proposer = "stub"
     /\ components.directive = "SovereignDirective")
    => /\ cycle.outcome = "returned"
       /\ Count(cycle.calls, "directive.evaluate_action") = Len(cycle.drafts)
       /\ Oids(cycle.ret) \subseteq Oids(cycle.drafts)
       /\ \A i, j \in 1..Len(cycle.ret) : i < j => cycle.ret[i].oid < cycle.ret[j].oid
       /\ Oids(active_proposals) = Oids(cycle.pre.active)
             \cup (Oids(cycle.ret) \ Oids(proposal_history))

\* C20 (as stated): with one of observer, analyzer, proposer, simulator,
\* reviewer, recorder not configured (and a directive configured), a cycle
\* that passed the checks returns without raising, and the stage of a
\* missing component calls nothing.
C20_AsStated ==
    (/\ CyclePassedTheChecks
     /\ components.directive = "SovereignDirective"
     /\ SomeStageComponentMissing)
    => /\ cycle.outcome = "returned"
       /\ components.observer = "none" => Count(cycle.calls, "observer.collect") = 0
       /\ components.analyzer = "none" => Count(cycle.calls, "analyzer.analyze") = 0
       /\ components.proposer = "none" => cycle.ret = <<>>

----------------------------------------------------------------------------
(* Properties of the sandbox boundary *)

\* C21 (as stated): whatever the callable writes to the memory view it is
\* given, the parent MemoryRouter holds after run() what it held before.
C21_AsStated ==
    sbRun.called => orig_memory = sbRun.pre_memory

\* C22 (as stated): on return and on exception alike, the parent collector's
\* events after run() are its events before, followed by the events the
\* callable recorded in the sandbox collector, in order.
C22_AsStated ==
    sbRun.called =>
        orig_telemetry = sbRun.pre_telemetry \o RecordEvents(<<>>, sbRun.callable.events)

----------------------------------------------------------------------------
(* Properties of the order of the Policy Gate's rules *)

MentionsRiskyCommand(s) ==
    \E r \in {S_rm_rf, S_format, S_mkfs, S_dd} :
        \E i \in 0..(Len(s) - Len(r)) : SubSeq(s, i + 1, i + Len(r)) = r

\* The decision (allowed, requires approval, risk) of the first matching rule
\* in the order forbidden scope, self-modification, high-risk command, default
FirstMatchingRule(action_type, target, command) ==
    IF IsAbsolutePath(target) \/ HasParentTraversal(target)
    THEN <<FALSE, FALSE, "CRITICAL">>
    ELSE IF action_type \in {"MODIFY_CODE", "DELETE_FILE", "EVOLVE_STRUCTURE"}
    THEN IF MentionsCore(target) THEN <<TRUE, TRUE, "HIGH">>
                                 ELSE <<TRUE, FALSE, "MEDIUM">>
    ELSE IF action_type = "EXECUTE_COMMAND" /\ MentionsRiskyCommand(command)
    THEN <<TRUE, TRUE, "HIGH">>
    ELSE <<TRUE, FALSE, "LOW">>

DecisionOf(result) ==
    <<result.decision.allowed, result.decision.requires_hassan_approval,
      result.decision.risk>>

\* C24: evaluate_action on a target path decides by the first matching rule in
\* the order forbidden scope, self-modification, high-risk command, default
\* (EXECUTE_COMMAND with a risky substring in the command: allowed, approval
\* required, HIGH; any other non-modification action, such as READ on a kernel
\* path: allowed, no approval, LOW), whatever calls came before and whatever
\* the audit log holds or whether it can be written.
C24_FirstMatchingRuleDecides ==
    (dCall.op = "evaluate_action" /\ dCall.context.target.k = "str")
    => /\ dCall.result.exc = "none"
       /\ DecisionOf(dCall.result)
              = FirstMatchingRule(dCall.action_type, dCall.context.target.v,
                                  dCall.context.command)

\* READ on a kernel path with a risky command text, after earlier decisions
\* were logged: the default rule decides
C24_Witness ==
    /\ dCall.op = "evaluate_action"
    /\ dCall.action_type = "READ"
    /\ dCall.context.target.v = S_kernel
    /\ dCall.context.command = S_rm_rf
    /\ Len(dCall.preFile) >= 1
    /\ DecisionOf(dCall.result) = <<TRUE, FALSE, "LOW">>

\* EXECUTE_COMMAND with a risky command on an allowed target: approval, HIGH
C24_WitnessRiskyCommand ==
    /\ dCall.op = "evaluate_action"
    /\ dCall.action_type = "EXECUTE_COMMAND"
    /\ dCall.context.target.v = S_kernel
    /\ ~dCall.ioOk
    /\ DecisionOf(dCall.result) = <<TRUE, TRUE, "HIGH">>

\* The same rule order over every action type, path and command text of the
\* gate called on its own
C24_RuleOrderOnEveryInput ==
    PolicyCalledOnPath
    => /\ pResult.exc = "none"
       /\ DecisionOf(pResult)
              = FirstMatchingRule(pInput.action_type, pInput.context.target.v,
                                  pInput.context.command)

----------------------------------------------------------------------------
(* Properties of the Policy Gate called on a list of target files *)

PolicyCalledOnFiles ==
    /\ pResult # Pending
    /\ pInput.action_type = "EVOLVE_STRUCTURE"
    /\ pInput.context.target.k = "list"

AnyFile(files, P(_)) == \E i \in 1..Len(files) : P(files[i])

\* C25 (as stated): called with a draft's target_files as the context target,
\* the gate never raises, denies when any target file is an absolute path or
\* contains "..", and otherwise allows, requiring approval when any target
\* file contains "governance" or "kernel".
C25_AsStated ==
    PolicyCalledOnFiles
    => LET files == pInput.context.target.v IN
       /\ pResult.exc = "none"
       /\ pResult.decision.allowed
              = ~(AnyFile(files, IsAbsolutePath) \/ AnyFile(files, HasParentTraversal))
       /\ (pResult.decision.allowed /\ AnyFile(files, MentionsCore))
              => pResult.decision.requires_hassan_approval

----------------------------------------------------------------------------
(* Properties of emergency_stop during a cycle *)

C27_WitnessNextCycle ==
    /\ flight.pc = "done"
    /\ flight.prior_stop
    /\ flight.begin.components.observer # "none"
    /\ flight.ret = <<>>
    /\ flight.calls = <<>>

----------------------------------------------------------------------------
(* Properties of the loop after an emergency stop *)

Stopped == ~enabled /\ loop_config.emergency_stop

\* C30: emergency_stop() leaves the loop disabled with its flag set, and from
\* then on every operation of the loop leaves it so; each run_cycle() of the
\* stopped loop returns the empty list and leaves active_proposals and
\* proposal_history as they were.
C30_StopIsPermanent ==
    [][/\ cycle'.op = "emergency_stop" => Stopped'
       /\ Stopped =>
            /\ Stopped'
            /\ cycle'.op = "run_cycle" =>
                  /\ cycle'.outcome = "returned"
                  /\ cycle'.ret = <<>>
                  /\ active_proposals' = active_proposals
                  /\ proposal_history' = proposal_history]_vars

\* run_cycle() right after emergency_stop() on a loop that was built enabled
\* and whose proposer has drafts to offer
C30_Witness ==
    /\ cycle.op = "run_cycle"
    /\ cycle.prev_op = "emergency_stop"
    /\ loop_config.enabled
    /\ Stopped
    /\ components.proposer = "stub"
    /\ components.directive # "none"
    /\ cycle.drafts # <<>>
    /\ cycle.ret = <<>>

====
